---- MODULE Spec2Model ----
(***************************************************************************)
(* Model of src/bot.js.  The file holds two bots:                          *)
(*   - the owner-only bot (lines 1-516), which keeps the order log         *)
(*     DB.orders and parses /add with parseAddCommand;                     *)
(*   - the ledger bot (lines 518-868), which keeps db.users balances, the  *)
(*     admin list, the recharge sessions and charges /add item by item.    *)
(*                                                                         *)
(* Money is kept in thousandths of a MMK, so that                          *)
(*   cost = (price_mmk * qty) / 1000      (line 737)                       *)
(* is the integer price_mmk * qty and a balance of b MMK is b * PerK.      *)
(*                                                                         *)
(* Every handler is cut at its awaits: one action is the synchronous run   *)
(* from one await (or the handler's entry) to the next.                    *)
(*                                                                         *)
(* Specifications:                                                         *)
(*   SpecCharge    the charge loop of the ledger bot's /add, /addbalance   *)
(*   SpecOrders    the order log of the owner-only bot's /add              *)
(*   SpecDecision  recharge confirm / failed, /promote, /demote            *)
(*   SpecRecharge  the recharge sessions: /recharge, cancel, messages      *)
(*   SpecGuard     the access control of /add in both bots                 *)
(*   SpecCommands  the catalog, price, ledger and admin commands           *)
(*   SpecParse     parseAddCommand on serialized item lists                *)
(*   SpecAddText   the owner-only bot's /add on raw message texts          *)
(*   SpecTokens    the token loop of the ledger bot's /add                 *)
(***************************************************************************)
EXTENDS Integers, Sequences, FiniteSets, TLC

VARIABLES
    users,       \* db.users        : id -> account (ledger bot)
    services,    \* db.services     : name -> [service_id, price_mmk]
    whitelist,   \* db.whitelist    : the names it includes
    admins,      \* db.admins       : array of ids
    reqs,        \* the /add handlers of the ledger bot that are running
    adjusts,     \* how many balance credits (/addbalance, confirm) were made
    reviews,     \* the review requests delivered to the operator (line 839)
    notices,     \* notices[id]: what sendMessage told id about a recharge
    answer,      \* the last answerCbQuery: who was answered, and what
    demoted,     \* the ids that /demote removed from db.admins
    DB_products, \* DB.products    : key -> [id, price_mmk_per_1k] (owner bot)
    DB_orders,   \* DB.orders      : the order log (owner bot)
    jobs,        \* the /add handlers of the owner-only bot that are running
    rechargeSessions, \* rechargeSessions : id -> session (line 806)
    photos,      \* the sendPhoto calls of line 839, each with its outcome
    lastReply,   \* the last message the recharge flow sent to a party, counted
    events,      \* how many updates the recharge flow has handled
    parse        \* a command text being parsed: the text, the position, the result

catalogVars  == <<services, whitelist>>
rechargeVars == <<reviews, notices, answer>>
adminVars    == <<admins, demoted>>
ownerVars    == <<DB_products, DB_orders, jobs, parse>>
sessionVars  == <<rechargeSessions, photos, lastReply, events>>

vars == <<users, services, whitelist, admins, reqs, adjusts, reviews, notices,
          answer, demoted, DB_products, DB_orders, jobs, rechargeSessions,
          photos, lastReply, events, parse>>

----------------------------------------------------------------------------
(* Identities, chats and the bounds of the model *)

OWNER == 1
P == OWNER + 1
Q == OWNER + 2
Ids == {OWNER, P, Q}

PerK == 1000

\* Chats: one private chat and groups; a group's creator is what
\* getChatAdministrators reports with status 'creator'.
Chats == {"private", "groupO", "groupP", "groupQ", "groupX"}
ChatType(c) == IF c = "private" THEN "private" ELSE "supergroup"
Creator(c) ==
    CASE c = "groupO" -> OWNER
      [] c = "groupP" -> P
      [] c = "groupQ" -> Q
      [] OTHER -> 0

MaxReqs == 2
MaxAdjusts == 1
Reqs == 1..MaxReqs

----------------------------------------------------------------------------
(* db helpers of the ledger bot *)

NoUser == [exists |-> FALSE, balance |-> 0, is_whitelisted |-> FALSE]
NewUser(wl) == [exists |-> TRUE, balance |-> 0, is_whitelisted |-> wl]

\* db.users[id] || { balance: 0, is_whitelisted: wl }
OrNew(us, id, wl) == IF us[id].exists THEN us[id] ELSE NewUser(wl)

Bal(us, id) == us[id].balance

isOwner(id) == id = OWNER

Includes(arr, x) == \E n \in 1..Len(arr) : arr[n] = x

isAdmin(id) == Includes(admins, id)

----------------------------------------------------------------------------
(* The catalog of the ledger bot *)

Svc(id, price) == [service_id |-> id, price_mmk |-> price]

\* /load writes these two presets and whitelists them (lines 656-666)
Presets == [view |-> Svc("258", 50), like |-> Svc("182", 1000)]

\* The catalog after /load, /post 900 vip and /setprice vip 2000: vip is a
\* known service that is not whitelisted.
CatalogServices ==
    [n \in {"view", "like", "vip"} |->
        IF n = "vip" THEN Svc("900", 2000) ELSE Presets[n]]
CatalogWhitelist == {"view", "like"}

----------------------------------------------------------------------------
(* The ledger bot's /add handler, lines 706-756 *)

Item(n, q) == [name |-> n, qty |-> q]

\* The lists `orders` that the charge loop of line 726 is run on.
OrderLists ==
    { <<Item("view", 10000), Item("like", 500)>>,
      <<Item("like", 500), Item("view", 10000)>>,
      <<Item("like", 1000)>>,
      <<Item("vip", 100), Item("like", 500)>>,
      <<Item("nope", 1000), Item("view", 10000)>>,
      <<Item("view", 0 - 2000), Item("like", 500)>> }

Idle ==
    [pc |-> "idle", from |-> 0, chat |-> "private", orders |-> <<>>, i |-> 0,
     totalCost |-> 0, charged |-> 0, checks |-> 0, calls |-> <<>>,
     receipt |-> <<>>, replied |-> FALSE, failed |-> FALSE, bal0 |-> 0]

\* A handler that returned at a guard: it replied nothing and changed nothing.
Ignored == [Idle EXCEPT !.pc = "ignored"]

Line(kind, k, order) == [kind |-> kind, item |-> k, order |-> order]

\* const cost = (svc.price_mmk * qty) / 1000, in thousandths
ItemCost(it) == services[it.name].price_mmk * it.qty

\* if (user.balance < cost) ... continue        (line 743)
InsufficientAlways(balance, cost) == FALSE
Insufficient(balance, cost) == balance < cost

\* The loop of lines 726-752 from item k up to its next await (callAPI, line
\* 750) or to the reply of line 754.  rq is the handler's state, us is db.users.
RECURSIVE ChargeLoop(_, _, _)
ChargeLoop(rq, us, k) ==
    IF k > Len(rq.orders)
    THEN [rq |-> [rq EXCEPT !.pc = "done", !.i = k, !.replied = TRUE], us |-> us]
    ELSE
      LET it == rq.orders[k] IN
      IF it.name \notin DOMAIN services
      THEN ChargeLoop([rq EXCEPT !.receipt = Append(@, Line("unknown", k, ""))], us, k + 1)
      ELSE IF it.name \notin whitelist /\ ~isOwner(rq.from)
      THEN ChargeLoop([rq EXCEPT !.receipt = Append(@, Line("notallowed", k, ""))], us, k + 1)
      ELSE
        LET cost == ItemCost(it)
            rq1  == [rq EXCEPT !.totalCost = @ + cost]
        IN
        IF isOwner(rq.from)
        THEN [rq |-> [rq1 EXCEPT !.pc = "await", !.i = k, !.calls = Append(@, k)],
              us |-> us]
        ELSE
          LET us1 == [us EXCEPT ![rq.from] = OrNew(us, rq.from, FALSE)]
              rq2 == [rq1 EXCEPT !.checks = @ + 1]
          IN
          IF Insufficient(us1[rq.from].balance, cost)
          THEN ChargeLoop([rq2 EXCEPT !.receipt = Append(@, Line("insufficient", k, ""))],
                          us1, k + 1)
          ELSE [rq |-> [rq2 EXCEPT !.pc = "await", !.i = k, !.charged = @ + cost,
                                   !.calls = Append(@, k)],
                us |-> [us1 EXCEPT ![rq.from].balance = @ - cost]]

\* bot.command('add'): the group test of line 707, then the await of
\* getChatAdministrators inside groupOwnerOnly (lines 561-573).
AddStart(r, from, chat, orders) ==
    /\ reqs[r].pc = "idle"
    /\ \A r0 \in Reqs : r0 < r => reqs[r0].pc # "idle"
    /\ reqs' = [reqs EXCEPT ![r] =
          IF ChatType(chat) \in {"group", "supergroup"}
          THEN [Idle EXCEPT !.pc = "lookup", !.from = from, !.chat = chat,
                            !.orders = orders]
          ELSE Ignored]
    /\ UNCHANGED <<users, adjusts, catalogVars, adminVars, rechargeVars, ownerVars,
                 sessionVars>>

\* getGroupOwnerId returns the creator's id, or null when the lookup throws;
\* groupOwnerOnly runs the handler body only if that is ctx.from.id.  The body
\* then runs its charge loop up to the first callAPI.
LookupReturn(r, ok) ==
    /\ reqs[r].pc = "lookup"
    /\ LET ownerId == IF ok THEN Creator(reqs[r].chat) ELSE 0 IN
       IF ownerId = reqs[r].from
       THEN LET rq0 == [reqs[r] EXCEPT !.bal0 = Bal(users, reqs[r].from)]
                run == ChargeLoop(rq0, users, 1)
            IN
            /\ reqs' = [reqs EXCEPT ![r] = run.rq]
            /\ users' = run.us
       ELSE /\ reqs' = [reqs EXCEPT ![r] = [Ignored EXCEPT !.from = reqs[r].from,
                                                            !.chat = reqs[r].chat]]
            /\ users' = users
    /\ UNCHANGED <<adjusts, catalogVars, adminVars, rechargeVars, ownerVars,
                 sessionVars>>

\* callAPI (lines 552-559) settles: it returns a response with an order id,
\* a response without one, or it throws (fetch or res.json() rejects).  Line
\* 750 has no try/catch, so a throw ends the handler.
ApiOutcomes == {"order", "noorder", "throw"}

\* (a variant that gives the item's cost back when the call fails)
ApiReturnRefund(r, out) ==
    /\ reqs[r].pc = "await"
    /\ LET it   == reqs[r].orders[reqs[r].i]
           back == IF out = "order" \/ isOwner(reqs[r].from) THEN 0 ELSE ItemCost(it)
           us0  == IF isOwner(reqs[r].from) THEN users
                   ELSE [users EXCEPT ![reqs[r].from].balance = @ + back]
       IN
       IF out = "throw"
       THEN /\ reqs' = [reqs EXCEPT ![r].pc = "aborted", ![r].failed = TRUE]
            /\ users' = us0
       ELSE LET rq  == [reqs[r] EXCEPT
                          !.receipt = Append(@, Line("ok", reqs[r].i,
                                         IF out = "order" THEN "id" ELSE "undefined")),
                          !.failed = @ \/ out = "noorder"]
                run == ChargeLoop(rq, us0, reqs[r].i + 1)
            IN /\ reqs' = [reqs EXCEPT ![r] = run.rq]
               /\ users' = run.us
    /\ UNCHANGED <<adjusts, catalogVars, adminVars, rechargeVars, ownerVars,
                 sessionVars>>

ApiReturn(r, out) ==
    /\ reqs[r].pc = "await"
    /\ IF out = "throw"
       THEN /\ reqs' = [reqs EXCEPT ![r].pc = "aborted", ![r].failed = TRUE]
            /\ users' = users
       ELSE LET rq  == [reqs[r] EXCEPT
                          !.receipt = Append(@, Line("ok", reqs[r].i,
                                         IF out = "order" THEN "id" ELSE "undefined")),
                          !.failed = @ \/ out = "noorder"]
                run == ChargeLoop(rq, users, reqs[r].i + 1)
            IN /\ reqs' = [reqs EXCEPT ![r] = run.rq]
               /\ users' = run.us
    /\ UNCHANGED <<adjusts, catalogVars, adminVars, rechargeVars, ownerVars,
                 sessionVars>>

----------------------------------------------------------------------------
(* The parts of the state a specification does not exercise *)

NoAnswer == [to |-> 0, text |-> ""]

RechargeQuiet ==
    /\ reviews = {}
    /\ notices = [id \in Ids |-> {}]
    /\ answer = NoAnswer

NoParse == [pc |-> "none"]

OwnerBotQuiet ==
    /\ DB_products = <<>>
    /\ DB_orders = <<>>
    /\ jobs = <<>>
    /\ parse = NoParse

NoSession == [step |-> 0, amount |-> 0]
NoReply == [to |-> 0, kind |-> "", n |-> 0]

SessionQuiet ==
    /\ rechargeSessions = [id \in Ids |-> NoSession]
    /\ photos = <<>>
    /\ lastReply = NoReply
    /\ events = 0

----------------------------------------------------------------------------
(* Owner commands of the ledger bot *)

\* ownerOnlyPrivate (lines 574-578)
OwnerPrivate(caller, chat) == ChatType(chat) = "private" /\ isOwner(caller)

\* The amounts (MMK) given to /addbalance
AddAmounts == {500, 0 - 500}

\* /addbalance <tg_id> <amount> (lines 620-627)
AddBalance(caller, chat, uid, a) ==
    /\ adjusts < MaxAdjusts
    /\ IF OwnerPrivate(caller, chat)
       THEN /\ users' = [users EXCEPT ![uid] =
                           [OrNew(users, uid, FALSE) EXCEPT !.balance = @ + a * PerK]]
            /\ adjusts' = adjusts + 1
       ELSE UNCHANGED <<users, adjusts>>
    /\ UNCHANGED <<reqs, catalogVars, adminVars, rechargeVars, ownerVars,
                 sessionVars>>

----------------------------------------------------------------------------
(* The charge loop under every interleaving of MaxReqs /add handlers.  db is *)
(* read from db.json at start (lines 530-539), so the accounts start from a *)
(* saved state.                                                             *)

Acct(mmk) == [exists |-> TRUE, balance |-> mmk * PerK, is_whitelisted |-> TRUE]

InitCharge ==
    /\ users \in { us \in [Ids -> {NoUser, Acct(500), Acct(999), Acct(1000)}] :
                     /\ us[OWNER] = NoUser
                     /\ us[P] \in {Acct(999), Acct(1000)}
                     /\ us[Q] = NoUser }
    /\ services = CatalogServices
    /\ whitelist = CatalogWhitelist
    /\ reqs = [r \in Reqs |-> Idle]
    /\ adjusts = 0
    /\ admins = <<>> /\ demoted = {}
    /\ RechargeQuiet
    /\ OwnerBotQuiet
    /\ SessionQuiet

NextCharge ==
    \/ \E r \in Reqs, from \in Ids, chat \in Chats, orders \in OrderLists :
          AddStart(r, from, chat, orders)
    \/ \E r \in Reqs, ok \in BOOLEAN : LookupReturn(r, ok)
    \/ \E r \in Reqs, out \in ApiOutcomes : ApiReturn(r, out)
    \/ \E caller \in Ids, chat \in Chats, uid \in Ids, a \in AddAmounts :
          AddBalance(caller, chat, uid, a)

SpecCharge == InitCharge /\ [][NextCharge]_vars

----------------------------------------------------------------------------
(* Claims about the charge loop (SpecCharge) *)

\* The handler body of request rq ran (groupOwnerOnly called next).
Started(rq) == rq.pc \in {"await", "done", "aborted"}
Finished(rq) == rq.pc \in {"done", "aborted"}

\* Item k of rq passes the tests of lines 727-734 and reaches the pricing.
Priced(rq, k) ==
    /\ rq.orders[k].name \in DOMAIN services
    /\ (rq.orders[k].name \in whitelist \/ isOwner(rq.from))

\* The total cost of a list: the sum of price_mmk * qty / 1000 over its known
\* items, in thousandths.
RECURSIVE FullCost(_, _)
FullCost(rq, k) ==
    IF k > Len(rq.orders) THEN 0
    ELSE (IF rq.orders[k].name \in DOMAIN services THEN ItemCost(rq.orders[k]) ELSE 0)
         + FullCost(rq, k + 1)

InSeq(sq, x) == \E n \in 1..Len(sq) : sq[n] = x

\* Every quantity of the list is a positive number.
PositiveQty(rq) == \A k \in 1..Len(rq.orders) : rq.orders[k].qty > 0

\* C1: a step of an /add handler never makes a balance negative: a balance
\* that the step changes was at least the cost taken from it, so it is >= 0
\* afterwards, whichever handlers of whichever parties interleave.
C1_DeductionKeepsBalanceNonNegative ==
    [][ reqs' # reqs =>
          \A u \in Ids : Bal(users', u) = Bal(users, u) \/ Bal(users', u) >= 0 ]_vars

\* Two parties were both charged, one request was refused an item, and a
\* balance was spent down to exactly 0.
C1_Witness ==
    \E r1, r2 \in Reqs :
        /\ reqs[r1].from = P /\ reqs[r2].from = Q
        /\ reqs[r1].charged > 0 /\ reqs[r2].charged > 0
        /\ \E n \in 1..Len(reqs[r1].receipt) : reqs[r1].receipt[n].kind = "insufficient"
        /\ Bal(users, Q) = 0

InChargeWindow(rq) ==
    /\ rq.pc = "await"
    /\ rq.checks >= 1
    /\ \E k \in (rq.i + 1)..Len(rq.orders) : Priced(rq, k)

AllPriced(rq) == \A k \in 1..Len(rq.orders) : Priced(rq, k)
Alone(r) == \A r2 \in Reqs \ {r} : reqs[r2].from # reqs[r].from

C8_NoRefundOnFailure ==
    [][ \A r \in Reqs :
          reqs'[r] # reqs[r] =>
            \A u \in Ids :
              Bal(users', u) =
                Bal(users, u) - (IF u = reqs'[r].from
                                 THEN reqs'[r].charged - reqs[r].charged ELSE 0) ]_vars

\* A request whose fulfillment call failed after a deduction, and the party's
\* balance is still the balance it had less what the request deducted.
C8_Witness ==
    \E r \in Reqs :
        /\ reqs[r].failed /\ Finished(reqs[r])
        /\ reqs[r].from = P
        /\ reqs[r].charged > 0
        /\ Bal(users, P) = reqs[r].bal0 - reqs[r].charged

----------------------------------------------------------------------------
(* The owner-only bot: /add with the order log, lines 417-504 *)

MaxJobs == 2
Jobs == 1..MaxJobs

Prod(id, price) == [id |-> id, price_mmk_per_1k |-> price]

\* A saved DB.products: view has an id and a price, like was only given a
\* price by /setprice (id ''), vip was only posted (price 0).
SavedProducts ==
    [n \in {"view", "like", "vip"} |->
        CASE n = "view" -> Prod("258", 50)
          [] n = "like" -> Prod("", 1000)
          [] OTHER      -> Prod("900", 0)]

PItem(key, shown, q) == [nameKey |-> key, displayName |-> shown, qty |-> q]

\* The (link, items) results of parseAddCommand that /add is run on: every
\* nameKey is a key of DB.products, which is where the parser takes them from.
Links == {"http://x.test", "t.me/y"}
ParsedItemLists ==
    { <<PItem("view", "View", 1000), PItem("like", "like", 500)>>,
      <<PItem("like", "Like", 500), PItem("view", "view", 1000)>>,
      <<PItem("vip", "VIP", 10)>>,
      <<PItem("view", "view", 1000), PItem("view", "view", 2000)>> }

IdleJob ==
    [pc |-> "idle", from |-> 0, chat |-> "private", link |-> "", items |-> <<>>,
     k |-> 0, itemCost |-> 0, totalCost |-> 0, receipt |-> <<>>, replied |-> FALSE]

\* isOwner(ctx) / isGroup(ctx) of the owner-only bot (lines 95-101)
isOwnerCtxAny(from) == TRUE
isOwnerCtx(from) == from = OWNER
isGroup(chat) == ChatType(chat) \in {"group", "supergroup"}

\* calcCostMMK (lines 141-143), in thousandths
calcCostMMK(pricePer1k, qty) == pricePer1k * qty

OrderRec(id, name, qty, cost, link, j, k) ==
    [id |-> id, name |-> name, qty |-> qty, cost_mmk |-> cost, link |-> link,
     job |-> j, item |-> k]

\* DB.orders.push(record) (lines 446, 484)
PushUnlessFailed(log, rec) == IF rec.id = "undefined" THEN log ELSE Append(log, rec)
Push(log, rec) == Append(log, rec)

\* The loop of lines 435-494 of job j from item k up to its next await
\* (callAPI, line 464) or to the reply of line 500.
RECURSIVE OrderLoop(_, _, _, _)
OrderLoop(j, jb, log, k) ==
    IF k > Len(jb.items)
    THEN [jb |-> [jb EXCEPT !.pc = "done", !.k = k, !.replied = TRUE], log |-> log]
    ELSE
      LET it == jb.items[k] IN
      IF it.nameKey \notin DOMAIN DB_products \/ DB_products[it.nameKey].id = ""
      THEN OrderLoop(j,
                     [jb EXCEPT !.receipt = Append(@, [item |-> k, id |-> "undefined", cost |-> 0])],
                     Push(log, OrderRec("undefined", it.displayName, it.qty, 0, jb.link, j, k)),
                     k + 1)
      ELSE
        LET pricePer1k == DB_products[it.nameKey].price_mmk_per_1k
            itemCost   == IF pricePer1k > 0 THEN calcCostMMK(pricePer1k, it.qty) ELSE 0
        IN [jb |-> [jb EXCEPT !.pc = "await", !.k = k, !.itemCost = itemCost],
            log |-> log]

\* bot.command('add') of the owner-only bot: the guards of lines 418-419, the
\* parse result, then the loop up to the first callAPI.
OwnerAdd(j, from, chat, link, items) ==
    /\ jobs[j].pc = "idle"
    /\ \A j0 \in Jobs : j0 < j => jobs[j0].pc # "idle"
    /\ IF isGroup(chat) /\ isOwnerCtx(from)
       THEN LET run == OrderLoop(j, [IdleJob EXCEPT !.from = from, !.chat = chat,
                                                     !.link = link, !.items = items],
                                 DB_orders, 1)
            IN /\ jobs' = [jobs EXCEPT ![j] = run.jb]
               /\ DB_orders' = run.log
       ELSE /\ jobs' = [jobs EXCEPT ![j] = [IdleJob EXCEPT !.pc = "ignored",
                                                          !.from = from, !.chat = chat]]
            /\ DB_orders' = DB_orders
    /\ UNCHANGED <<DB_products, parse, users, reqs, adjusts, catalogVars, adminVars, rechargeVars,
                 sessionVars>>

\* callAPI settles inside the try/catch of lines 463-474: orderId is
\* res.order, or undefined when the response has none or the call threw.
OwnerApiReturn(j, out) ==
    /\ jobs[j].pc = "await"
    /\ LET jb      == jobs[j]
           it      == jb.items[jb.k]
           orderId == IF out = "order" THEN "id" ELSE "undefined"
           jb1     == [jb EXCEPT
                         !.receipt = Append(@, [item |-> jb.k, id |-> orderId,
                                                cost |-> jb.itemCost]),
                         !.totalCost = @ + jb.itemCost]
           log1    == Push(DB_orders,
                           OrderRec(orderId, it.displayName, it.qty, jb.itemCost,
                                    jb.link, j, jb.k))
           run     == OrderLoop(j, jb1, log1, jb.k + 1)
       IN /\ jobs' = [jobs EXCEPT ![j] = run.jb]
          /\ DB_orders' = run.log
    /\ UNCHANGED <<DB_products, parse, users, reqs, adjusts, catalogVars, adminVars, rechargeVars,
                 sessionVars>>

LedgerQuiet ==
    /\ users = [id \in Ids |-> NoUser]
    /\ services = <<>> /\ whitelist = {}
    /\ admins = <<>> /\ demoted = {}
    /\ reqs = <<>>
    /\ adjusts = 0

InitOrders ==
    /\ DB_products = SavedProducts
    /\ DB_orders = <<>>
    /\ jobs = [j \in Jobs |-> IdleJob]
    /\ LedgerQuiet
    /\ RechargeQuiet
    /\ SessionQuiet
    /\ parse = NoParse

NextOrders ==
    \/ \E j \in Jobs, from \in Ids, chat \in Chats, link \in Links,
          items \in ParsedItemLists : OwnerAdd(j, from, chat, link, items)
    \/ \E j \in Jobs, out \in ApiOutcomes : OwnerApiReturn(j, out)

SpecOrders == InitOrders /\ [][NextOrders]_vars

----------------------------------------------------------------------------
(* Claims about the order log (SpecOrders) *)

\* The records of job j in the log, in log order.
RECURSIVE RecordsOf(_, _)
RecordsOf(log, j) ==
    IF log = <<>> THEN <<>>
    ELSE LET rest == RecordsOf(Tail(log), j) IN
         IF Head(log).job = j THEN <<Head(log)>> \o rest ELSE rest

IsPrefix(a, b) == Len(a) <= Len(b) /\ SubSeq(b, 1, Len(a)) = a

\* What job jb has to have logged for its first n items.
LoggedItems(jb, recs, n) ==
    /\ Len(recs) = n
    /\ \A k \in 1..n :
         /\ recs[k].item = k
         /\ recs[k].name = jb.items[k].displayName
         /\ recs[k].qty = jb.items[k].qty
         /\ recs[k].link = jb.link

\* C7: every step only appends to DB.orders, and each /add has logged one
\* record per line item it has gone through, in line-item order: all n of
\* them when it ends, whatever the calls returned and however two requests
\* interleave.
C7_OneRecordPerItem ==
    [][ /\ IsPrefix(DB_orders, DB_orders')
        /\ \A j \in Jobs :
             LET jb == jobs'[j] IN
             /\ jb.pc = "done" => LoggedItems(jb, RecordsOf(DB_orders', j), Len(jb.items))
             /\ jb.pc = "await" => LoggedItems(jb, RecordsOf(DB_orders', j), jb.k - 1)
      ]_vars

\* Two finished requests whose records interleave in the log, with a failed
\* call, a call that succeeded and a product without external identifier.
C7_Witness ==
    /\ \A j \in Jobs : jobs[j].pc = "done"
    /\ Len(DB_orders) >= 4
    /\ DB_orders[1].job = DB_orders[3].job
    /\ DB_orders[2].job # DB_orders[3].job
    /\ \E n \in 1..Len(DB_orders) : DB_orders[n].id = "id"
    /\ \E n \in 1..Len(DB_orders) :
          DB_orders[n].id = "undefined" /\ DB_orders[n].cost_mmk > 0
    /\ \E n \in 1..Len(DB_orders) :
          DB_orders[n].id = "undefined" /\ DB_orders[n].name \in {"like", "Like"}

----------------------------------------------------------------------------
(* Recharge decisions of the ledger bot, lines 845-859, and the admin list *)

DigitChars == <<"0", "1", "2", "3", "4", "5", "6", "7", "8", "9">>

\* `${n}` for a number n >= 0: its decimal digits
RECURSIVE DecStr(_)
DecStr(n) ==
    IF n < 10 THEN <<DigitChars[n + 1]>>
    ELSE Append(DecStr(n \div 10), DigitChars[(n % 10) + 1])

DigitValue(c) == (CHOOSE d \in 1..10 : DigitChars[d] = c) - 1

\* Number(str) for a string matched by \d+
RECURSIVE Number(_)
Number(str) ==
    IF Len(str) = 0 THEN 0
    ELSE 10 * Number(SubSeq(str, 1, Len(str) - 1)) + DigitValue(str[Len(str)])

\* A review request as sendPhoto delivers it to the operator (lines 831-839):
\* party id and amount, carried by the two buttons' callback data
\* recharge_confirm_<id>_<amount> and recharge_failed_<id>_<amount>.
Review(id, amount) == [id |-> id, amount |-> amount]
CallbackData(rv) == [uidStr |-> DecStr(rv.id), amtStr |-> DecStr(rv.amount)]

\* if (!isAdmin(ctx.from.id) && !isOwner(ctx.from.id)) return ...  (846, 855)
PermittedAnyone(caller) == TRUE
Permitted(caller) == isAdmin(caller) \/ isOwner(caller)

\* db.users[userId] = db.users[userId] || {...}; db.users[userId].balance += amount
CreditOverwrite(us, userId, amount) ==
    [us EXCEPT ![userId] = [NewUser(TRUE) EXCEPT !.balance = amount * PerK]]
Credit(us, userId, amount) ==
    [us EXCEPT ![userId] = [OrNew(us, userId, TRUE) EXCEPT !.balance = @ + amount * PerK]]

MaxCredits == 2

\* bot.action(/recharge_confirm_(\d+)_(\d+)/): the credit of lines 848-849 is
\* made before the awaits; sendMessage may throw (it is caught), so the party
\* may or may not get the notice.
RechargeConfirm(caller, rv, told) ==
    /\ rv \in reviews
    /\ IF ~Permitted(caller)
       THEN /\ answer' = [to |-> caller, text |-> "denied"]
            /\ UNCHANGED <<users, notices, adjusts>>
       ELSE LET userId == Number(CallbackData(rv).uidStr)
                amount == Number(CallbackData(rv).amtStr)
            IN /\ adjusts < MaxCredits
               /\ adjusts' = adjusts + 1
               /\ users' = Credit(users, userId, amount)
               /\ notices' = IF told
                             THEN [notices EXCEPT ![userId] =
                                     @ \cup {[kind |-> "successful", amount |-> amount]}]
                             ELSE notices
               /\ answer' = [to |-> caller, text |-> "confirmed"]
    /\ UNCHANGED <<reviews, reqs, catalogVars, adminVars, ownerVars,
                 sessionVars>>

\* bot.action(/recharge_failed_(\d+)_(\d+)/)
RechargeFailed(caller, rv, told) ==
    /\ rv \in reviews
    /\ IF ~Permitted(caller)
       THEN /\ answer' = [to |-> caller, text |-> "denied"]
            /\ UNCHANGED notices
       ELSE LET userId == Number(CallbackData(rv).uidStr) IN
            /\ notices' = IF told
                          THEN [notices EXCEPT ![userId] =
                                  @ \cup {[kind |-> "failed", amount |-> 0]}]
                          ELSE notices
            /\ answer' = [to |-> caller, text |-> "failed marked"]
    /\ UNCHANGED <<users, adjusts, reviews, reqs, catalogVars, adminVars, ownerVars,
                 sessionVars>>

\* db.admins.filter(adminId => adminId !== id)
RECURSIVE Without(_, _)
Without(arr, id) ==
    IF arr = <<>> THEN <<>>
    ELSE IF Head(arr) = id THEN Without(Tail(arr), id)
    ELSE <<Head(arr)>> \o Without(Tail(arr), id)

\* /promote <id> (lines 668-674)
Promote(caller, chat, id) ==
    /\ admins' = IF OwnerPrivate(caller, chat) /\ id # 0 /\ ~Includes(admins, id)
                 THEN Append(admins, id) ELSE admins
    /\ UNCHANGED <<demoted, users, adjusts, reqs, catalogVars, rechargeVars, ownerVars,
                 sessionVars>>

\* /demote <id> (lines 676-681)
Demote(caller, chat, id) ==
    /\ admins' = IF OwnerPrivate(caller, chat) THEN Without(admins, id) ELSE admins
    /\ demoted' = IF OwnerPrivate(caller, chat) /\ Includes(admins, id)
                  THEN demoted \cup {id} ELSE demoted
    /\ UNCHANGED <<users, adjusts, reqs, catalogVars, rechargeVars, ownerVars,
                 sessionVars>>

\* Two review requests wait in the operator's chat: P's for 500 and Q's for
\* 1000.  P has no account yet, Q has 500 MMK.
InitDecision ==
    /\ users = [id \in Ids |-> IF id = Q THEN Acct(500) ELSE NoUser]
    /\ reviews = {Review(P, 500), Review(Q, 1000)}
    /\ notices = [id \in Ids |-> {}]
    /\ answer = NoAnswer
    /\ admins = <<>> /\ demoted = {}
    /\ adjusts = 0
    /\ services = <<>> /\ whitelist = {}
    /\ reqs = <<>>
    /\ OwnerBotQuiet
    /\ SessionQuiet

NextDecision ==
    \/ \E caller \in Ids, rv \in reviews, told \in BOOLEAN :
          RechargeConfirm(caller, rv, told)
    \/ \E caller \in Ids, rv \in reviews, told \in BOOLEAN :
          RechargeFailed(caller, rv, told)
    \/ \E caller \in Ids, chat \in Chats, id \in {P, Q} : Promote(caller, chat, id)
    \/ \E caller \in Ids, chat \in Chats, id \in {P, Q} : Demote(caller, chat, id)

SpecDecision == InitDecision /\ [][NextDecision]_vars

----------------------------------------------------------------------------
(* Claims about the recharge decisions (SpecDecision) *)

\* C9: a confirm or a reject fired by an identity that is neither the
\* operator nor in db.admins at that moment changes no account and sends no
\* notice; this holds for an admin from the moment /demote removed it.
C9_DecisionNeedsOperatorOrAdmin ==
    [][ \A caller \in Ids, rv \in reviews, told \in BOOLEAN :
          (/\ RechargeConfirm(caller, rv, told) \/ RechargeFailed(caller, rv, told)
           /\ ~isOwner(caller)
           /\ ~Includes(admins, caller))
          => (users' = users /\ notices' = notices) ]_vars

\* A recharge was credited, Q was removed from db.admins by /demote, and the
\* decision Q fired afterwards was denied.
C9_Witness ==
    /\ Q \in demoted
    /\ ~Includes(admins, Q)
    /\ answer = [to |-> Q, text |-> "denied"]
    /\ Bal(users, P) > 0

\* C10: an honoured confirm of the request (party, amount) adds exactly
\* amount to the party's balance, on an account created at 0 if there was
\* none, and changes no other account, every time it is fired; a reject
\* changes no account.
C10_ConfirmCreditsExactly ==
    [][ \A caller \in Ids, rv \in reviews, told \in BOOLEAN :
          /\ (RechargeConfirm(caller, rv, told) /\ answer'.text = "confirmed")
             => (/\ users'[rv.id].exists
                 /\ Bal(users', rv.id) = Bal(users, rv.id) + rv.amount * PerK
                 /\ \A u \in Ids \ {rv.id} : users'[u] = users[u])
          /\ RechargeFailed(caller, rv, told) => users' = users ]_vars

\* Confirm was fired twice on P's one request for 500: P, who had no
\* account, holds 1000, and Q's account still holds its 500.
C10_Witness ==
    /\ users[P].exists /\ Bal(users, P) = 2 * 500 * PerK
    /\ Bal(users, Q) = 500 * PerK
    /\ users[OWNER] = NoUser

----------------------------------------------------------------------------
(* The recharge flow of the ledger bot, lines 806-842 *)

MaxEvents == 6
MaxPhotos == 2

\* A message as bot.on('message') sees it: ctx.message.text (hasText FALSE
\* when it is undefined) and ctx.message.photo.  A text is a sequence of
\* characters.
TextMsg(t) == [hasText |-> TRUE, text |-> t, photo |-> FALSE]
PhotoMsg == [hasText |-> FALSE, text |-> <<>>, photo |-> TRUE]
StickerMsg == [hasText |-> FALSE, text |-> <<>>, photo |-> FALSE]

Messages ==
    { TextMsg(<<"5", "0", "0">>),
      TextMsg(<<"2", "0", "0", "0">>),
      TextMsg(<<"0", "5", "0", "0">>),
      TextMsg(<<"7", "5", "0">>),
      TextMsg(<<"a", "b", "c">>),
      TextMsg(<<"5", "0", "0", "k">>),
      TextMsg(<<"-", "5", "0", "0">>),
      PhotoMsg,
      StickerMsg }

\* /^\d+$/.test(text)
TestDigits(text) ==
    /\ Len(text) > 0
    /\ \A n \in 1..Len(text) : \E d \in 1..Len(DigitChars) : DigitChars[d] = text[n]

\* const allowed = [500,1000,2000,5000,10000]; allowed.includes(amount)
AllowedAny(amount) == TRUE
Allowed(amount) == amount \in {500, 1000, 2000, 5000, 10000}

\* rechargeSessions[id] = { step: 1 }                      (line 809)
ReplaceKeepAmount(sessions, id) == [sessions EXCEPT ![id].step = 1]
Replace(sessions, id) == [sessions EXCEPT ![id] = [step |-> 1, amount |-> 0]]

\* delete rechargeSessions[id]                             (lines 814, 831)
DeleteAll(sessions, id) == [u \in DOMAIN sessions |-> NoSession]
Delete(sessions, id) == [sessions EXCEPT ![id] = NoSession]

\* const amount = session.amount                           (line 831)
SessionAmountNone(session) == 0
SessionAmount(session) == session.amount

\* ctx.reply(...), ctx.editMessageText(...): a message to the party
Reply(to, kind) == [to |-> to, kind |-> kind, n |-> lastReply.n + 1]

\* The sendPhoto call of line 839: to the operator, with the caption's party
\* and amount and the callback data of the two buttons.
PhotoCallNoAmount(id, amount) ==
    [to |-> OWNER, id |-> id, amount |-> 0,
     confirm |-> CallbackData(Review(id, 0)),
     failed |-> CallbackData(Review(id, 0)),
     state |-> "sending"]
PhotoCall(id, amount) ==
    [to |-> OWNER, id |-> id, amount |-> amount,
     confirm |-> CallbackData(Review(id, amount)),
     failed |-> CallbackData(Review(id, amount)),
     state |-> "sending"]

\* bot.command('recharge')                                 (lines 807-811)
Recharge(id, chat) ==
    /\ events < MaxEvents
    /\ events' = events + 1
    /\ IF ChatType(chat) # "private"
       THEN UNCHANGED <<rechargeSessions, lastReply>>
       ELSE /\ rechargeSessions' = Replace(rechargeSessions, id)
            /\ lastReply' = Reply(id, "send amount")
    /\ UNCHANGED <<photos, users, adjusts, reqs, catalogVars, adminVars,
                   rechargeVars, ownerVars>>

\* bot.action('recharge_cancel')                           (lines 812-816)
RechargeCancel(id) ==
    /\ events < MaxEvents
    /\ events' = events + 1
    /\ IF rechargeSessions[id].step # 0
       THEN /\ rechargeSessions' = Delete(rechargeSessions, id)
            /\ lastReply' = Reply(id, "cancelled")
            /\ answer' = answer
       ELSE /\ answer' = [to |-> id, text |-> "no active recharge"]
            /\ UNCHANGED <<rechargeSessions, lastReply>>
    /\ UNCHANGED <<photos, reviews, notices, users, adjusts, reqs, catalogVars,
                   adminVars, ownerVars>>

\* bot.on('message') up to its return or to the await of sendPhoto
\* (lines 817-839)
MessageHandler(id, msg) ==
    /\ events < MaxEvents
    /\ events' = events + 1
    /\ LET session == rechargeSessions[id] IN
       IF session.step = 0
       THEN UNCHANGED <<rechargeSessions, photos, lastReply>>
       ELSE IF session.step = 1
       THEN /\ photos' = photos
            /\ IF ~msg.hasText \/ ~TestDigits(msg.text)
               THEN /\ lastReply' = Reply(id, "send a valid number")
                    /\ rechargeSessions' = rechargeSessions
               ELSE IF ~Allowed(Number(msg.text))
               THEN /\ lastReply' = Reply(id, "allowed amounts only")
                    /\ rechargeSessions' = rechargeSessions
               ELSE /\ rechargeSessions' =
                         [rechargeSessions EXCEPT
                            ![id] = [step |-> 2, amount |-> Number(msg.text)]]
                    /\ lastReply' = Reply(id, "send screenshot")
       ELSE IF session.step = 2 /\ msg.photo
       THEN /\ Len(photos) < MaxPhotos
            /\ rechargeSessions' = Delete(rechargeSessions, id)
            /\ photos' = Append(photos, PhotoCall(id, SessionAmount(session)))
            /\ lastReply' = lastReply
       ELSE UNCHANGED <<rechargeSessions, photos, lastReply>>
    /\ UNCHANGED <<users, adjusts, reqs, catalogVars, adminVars, rechargeVars,
                   ownerVars>>

\* sendPhoto settles (line 839): delivered, and the handler replies (line
\* 840); or it throws, and the handler ends there.
SendPhotoReturn(n, ok) ==
    /\ n \in 1..Len(photos)
    /\ photos[n].state = "sending"
    /\ IF ok
       THEN /\ photos' = [photos EXCEPT ![n].state = "delivered"]
            /\ reviews' = reviews \cup {Review(photos[n].id, photos[n].amount)}
            /\ lastReply' = Reply(photos[n].id, "proof sent")
       ELSE /\ photos' = [photos EXCEPT ![n].state = "failed"]
            /\ UNCHANGED <<reviews, lastReply>>
    /\ UNCHANGED <<rechargeSessions, events, notices, answer, users, adjusts,
                   reqs, catalogVars, adminVars, ownerVars>>

Parties == {P, Q}

InitRecharge ==
    /\ users = [id \in Ids |-> IF id = Q THEN Acct(500) ELSE NoUser]
    /\ SessionQuiet
    /\ RechargeQuiet
    /\ admins = <<>> /\ demoted = {}
    /\ adjusts = 0
    /\ services = <<>> /\ whitelist = {}
    /\ reqs = <<>>
    /\ OwnerBotQuiet

NextRecharge ==
    \/ \E id \in Parties, chat \in Chats : Recharge(id, chat)
    \/ \E id \in Parties : RechargeCancel(id)
    \/ \E id \in Parties, msg \in Messages : MessageHandler(id, msg)
    \/ \E n \in 1..MaxPhotos, ok \in BOOLEAN : SendPhotoReturn(n, ok)
    \/ \E caller \in Ids, rv \in reviews, told \in BOOLEAN :
          RechargeConfirm(caller, rv, told)

SpecRecharge == InitRecharge /\ [][NextRecharge]_vars

----------------------------------------------------------------------------
(* Claims about the recharge flow (SpecRecharge) *)

AwaitingAmount == [step |-> 1, amount |-> 0]
AwaitingProof(a) == [step |-> 2, amount |-> a]

\* The denominations of the allow-list.
Denominations == {500, 1000, 2000, 5000, 10000}

RECURSIVE Zeros(_)
Zeros(z) == IF z = 0 THEN <<>> ELSE <<"0">> \o Zeros(z - 1)

\* The message is a text that writes the integer a in decimal.
Writes(msg, a) ==
    /\ msg.hasText
    /\ \E z \in 0..Len(msg.text) : msg.text = Zeros(z) \o DecStr(a)

\* The step sent one more message to id.
RepliedTo(id) == lastReply'.n = lastReply.n + 1 /\ lastReply'.to = id

\* C11: a message of a party whose session awaits an amount is validated: a
\* text that writes a denomination of the allow-list moves the session to
\* awaiting-proof with that amount; every other message is answered with a
\* rejection and leaves the session awaiting an amount, with none recorded.
C11_AmountValidated ==
    [][ \A id \in Parties, msg \in Messages :
          (MessageHandler(id, msg) /\ rechargeSessions[id] = AwaitingAmount) =>
            IF \E a \in Denominations : Writes(msg, a)
            THEN \E a \in Denominations :
                    /\ Writes(msg, a)
                    /\ rechargeSessions'[id] = AwaitingProof(a)
            ELSE /\ rechargeSessions'[id] = AwaitingAmount
                 /\ RepliedTo(id)
                 /\ lastReply'.kind \in {"send a valid number", "allowed amounts only"} ]_vars

\* P's session took an amount and awaits the proof for 500; Q was just refused
\* a number outside the allow-list and its session still awaits an amount.
C11_Witness ==
    /\ rechargeSessions[P] = AwaitingProof(500)
    /\ rechargeSessions[Q] = AwaitingAmount
    /\ lastReply.to = Q /\ lastReply.kind = "allowed amounts only"

\* C12: a message without an image of a party whose session awaits the proof
\* is answered with a re-prompt to the party; the session and its amount stay
\* as they are and no review request is sent.
C12_NonImageRePrompted ==
    [][ \A id \in Parties, msg \in Messages :
          (/\ MessageHandler(id, msg)
           /\ rechargeSessions[id].step = 2
           /\ ~msg.photo)
          => (/\ rechargeSessions' = rechargeSessions
              /\ photos' = photos
              /\ RepliedTo(id)) ]_vars

\* C13: a message with an image of a party whose session awaits the proof
\* destroys that session and sends exactly one review request to the
\* operator, with the party's id, the session's amount and the confirm and
\* reject actions of that (party, amount); no account changes.
C13_ProofEscalates ==
    [][ \A id \in Parties, msg \in Messages :
          (/\ MessageHandler(id, msg)
           /\ rechargeSessions[id].step = 2
           /\ msg.photo)
          => (/\ rechargeSessions' = [rechargeSessions EXCEPT ![id] = NoSession]
              /\ Len(photos') = Len(photos) + 1
              /\ SubSeq(photos', 1, Len(photos)) = photos
              /\ LET call == photos'[Len(photos')] IN
                 /\ call.to = OWNER
                 /\ call.id = id
                 /\ call.amount = rechargeSessions[id].amount
                 /\ call.amount \in Denominations
                 /\ Number(call.confirm.uidStr) = id
                 /\ Number(call.confirm.amtStr) = rechargeSessions[id].amount
                 /\ Number(call.failed.uidStr) = id
                 /\ Number(call.failed.amtStr) = rechargeSessions[id].amount
              /\ users' = users) ]_vars

\* P's request for 2000 and Q's request for 500 were both sent to the
\* operator and both sessions are gone.
C13_Witness ==
    /\ Len(photos) = 2
    /\ photos[1].id = P /\ photos[1].amount = 2000
    /\ photos[2].id = Q /\ photos[2].amount = 500
    /\ rechargeSessions = [id \in Ids |-> NoSession]

\* C14: a cancel of a party destroys that party's session in either state
\* and touches no other session and no account; without a session it changes
\* nothing; and a message of a party that has no session has no effect.
C14_CancelDestroysOwnSession ==
    [][ /\ \A id \in Parties :
             RechargeCancel(id) =>
               /\ rechargeSessions'[id] = NoSession
               /\ \A u \in Ids \ {id} : rechargeSessions'[u] = rechargeSessions[u]
               /\ users' = users
               /\ photos' = photos /\ reviews' = reviews
               /\ rechargeSessions[id] = NoSession => lastReply' = lastReply
        /\ \A id \in Parties, msg \in Messages :
             (MessageHandler(id, msg) /\ rechargeSessions[id] = NoSession) =>
               /\ rechargeSessions' = rechargeSessions
               /\ photos' = photos /\ reviews' = reviews
               /\ lastReply' = lastReply
               /\ users' = users ]_vars

\* P cancelled a session, after an earlier request of P was escalated and
\* credited; Q's session still awaits an amount.
C14_Witness ==
    /\ lastReply.to = P /\ lastReply.kind = "cancelled"
    /\ rechargeSessions[P] = NoSession
    /\ rechargeSessions[Q] = AwaitingAmount
    /\ photos # <<>> /\ photos[1].id = P
    /\ Bal(users, P) > 0

\* C15: a session that a proof submission destroyed was handed off: the
\* forwarding of its review request, once settled, has delivered it.
C15_DestroyedOnlyAfterHandOff ==
    \A n \in 1..Len(photos) :
        (photos[n].state # "sending" /\ rechargeSessions[photos[n].id] = NoSession)
        => photos[n].state = "delivered"

\* C16: a /recharge in a private chat replaces the party's session by one
\* that awaits an amount and holds none; a review request carries the amount
\* the party's session holds at the proof message; and the continuation of a
\* suspended handler writes to no session.
C16_NoStaleSession ==
    [][ /\ \A id \in Parties, chat \in Chats :
             (Recharge(id, chat) /\ ChatType(chat) = "private") =>
               /\ rechargeSessions'[id] = AwaitingAmount
               /\ \A u \in Ids \ {id} : rechargeSessions'[u] = rechargeSessions[u]
        /\ \A n \in 1..Len(photos') :
             n > Len(photos) =>
               /\ rechargeSessions[photos'[n].id].step = 2
               /\ photos'[n].amount = rechargeSessions[photos'[n].id].amount
        /\ \A n \in 1..MaxPhotos, ok \in BOOLEAN :
             SendPhotoReturn(n, ok) => rechargeSessions' = rechargeSessions
        /\ \A n \in 1..Len(photos) :
             /\ photos'[n].id = photos[n].id
             /\ photos'[n].amount = photos[n].amount ]_vars

\* While the forwarding of P's request for 2000 is suspended, P ran /recharge
\* again and the new session awaits the proof for 500.
C16_Witness ==
    /\ Len(photos) = 1
    /\ photos[1].id = P /\ photos[1].amount = 2000 /\ photos[1].state = "sending"
    /\ rechargeSessions[P] = AwaitingProof(500)

----------------------------------------------------------------------------
(* Access control of the ordering command: one /add of the ledger bot (lines *)
(* 706-709 with groupOwnerOnly) and one /add of the owner-only bot (lines    *)
(* 417-419), by every caller in every chat.                                  *)

InitGuard ==
    /\ users = [id \in Ids |-> IF id = OWNER THEN NoUser ELSE Acct(1000)]
    /\ services = CatalogServices
    /\ whitelist = CatalogWhitelist
    /\ reqs = [r \in {1} |-> Idle]
    /\ adjusts = 0
    /\ admins = <<>> /\ demoted = {}
    /\ DB_products = SavedProducts
    /\ DB_orders = <<>>
    /\ jobs = [j \in {1} |-> IdleJob]
    /\ RechargeQuiet
    /\ SessionQuiet
    /\ parse = NoParse

NextGuard ==
    \/ \E r \in DOMAIN reqs, from \in Ids, chat \in Chats, orders \in OrderLists :
          AddStart(r, from, chat, orders)
    \/ \E r \in DOMAIN reqs, ok \in BOOLEAN : LookupReturn(r, ok)
    \/ \E r \in DOMAIN reqs, out \in ApiOutcomes : ApiReturn(r, out)
    \/ \E j \in DOMAIN jobs, from \in Ids, chat \in Chats, link \in Links,
          items \in ParsedItemLists : OwnerAdd(j, from, chat, link, items)
    \/ \E j \in DOMAIN jobs, out \in ApiOutcomes : OwnerApiReturn(j, out)

SpecGuard == InitGuard /\ [][NextGuard]_vars

\* The caller is the operator or the creator of the group chat.
Authorized(from, chat) ==
    ChatType(chat) # "private" /\ (from = OWNER \/ from = Creator(chat))

\* The caller, in a group chat, is neither its creator nor the operator.
Outsider(from, chat) ==
    ChatType(chat) # "private" /\ from # OWNER /\ from # Creator(chat)

\* Nothing but the handlers' own records changes in the step.
NothingWritten ==
    /\ users' = users
    /\ services' = services /\ whitelist' = whitelist
    /\ DB_products' = DB_products /\ DB_orders' = DB_orders
    /\ rechargeSessions' = rechargeSessions
    /\ lastReply' = lastReply

\* C17: an ordering command sent in a group chat by the operator, or by the
\* group's creator, passes the access control and is executed (when the
\* administrator lookup succeeds, where there is one).
C17_OperatorOrCreatorPasses ==
    [][ /\ \A r \in DOMAIN reqs :
             (LookupReturn(r, TRUE) /\ Authorized(reqs[r].from, reqs[r].chat))
             => Started(reqs'[r])
        /\ \A j \in DOMAIN jobs, from \in Ids, chat \in Chats, link \in Links,
              items \in ParsedItemLists :
             (OwnerAdd(j, from, chat, link, items) /\ Authorized(from, chat))
             => jobs'[j].pc \in {"await", "done"} ]_vars

\* C18: an ordering command sent in a group chat by a caller who is neither
\* the group's creator nor the operator is ignored in silence: no reply, no
\* fulfillment call, and no change of catalog, balances, order log or
\* recharge sessions; so is any caller's command when the administrator
\* lookup fails.
C18_OutsiderSilentlyIgnored ==
    [][ /\ \A r \in DOMAIN reqs :
             (reqs'[r] # reqs[r] /\ Outsider(reqs'[r].from, reqs'[r].chat))
             => (/\ reqs'[r].pc \in {"lookup", "ignored"}
                 /\ ~reqs'[r].replied
                 /\ reqs'[r].calls = <<>> /\ reqs'[r].receipt = <<>>
                 /\ NothingWritten)
        /\ \A r \in DOMAIN reqs :
             LookupReturn(r, FALSE)
             => (/\ reqs'[r].pc = "ignored"
                 /\ ~reqs'[r].replied
                 /\ reqs'[r].calls = <<>> /\ reqs'[r].receipt = <<>>
                 /\ NothingWritten)
        /\ \A j \in DOMAIN jobs :
             (jobs'[j] # jobs[j] /\ Outsider(jobs'[j].from, jobs'[j].chat))
             => (/\ jobs'[j].pc = "ignored"
                 /\ ~jobs'[j].replied
                 /\ jobs'[j].receipt = <<>>
                 /\ NothingWritten) ]_vars

\* Q's /add in the group that P created was ignored by both bots, and no
\* balance and no order record was written.
C18_Witness ==
    /\ \E r \in DOMAIN reqs :
          reqs[r].pc = "ignored" /\ reqs[r].from = Q /\ reqs[r].chat = "groupP"
    /\ \E j \in DOMAIN jobs :
          jobs[j].pc = "ignored" /\ jobs[j].from = Q /\ jobs[j].chat = "groupP"
    /\ Bal(users, Q) = 1000 * PerK
    /\ DB_orders = <<>>

----------------------------------------------------------------------------
(* The catalog, price, ledger and admin commands of both bots *)

\* obj[key] = val on an object that may not have the key yet
Put(obj, key, val) ==
    [n \in DOMAIN obj \cup {key} |-> IF n = key THEN val ELSE obj[n]]

\* /post <service_id> <name> of the ledger bot (lines 581-586)
Post(caller, chat, serviceId, name) ==
    /\ services' = IF OwnerPrivate(caller, chat)
                   THEN Put(services, name, Svc(serviceId, 0))
                   ELSE services
    /\ UNCHANGED <<whitelist, users, adjusts, reqs, adminVars, rechargeVars,
                   ownerVars, sessionVars>>

\* /setprice <name> <price> of the ledger bot (lines 588-594); price is the
\* value Number(price) of the price token.
SetPrice(caller, chat, name, price) ==
    /\ services' = IF OwnerPrivate(caller, chat) /\ name \in DOMAIN services
                   THEN [services EXCEPT ![name].price_mmk = price]
                   ELSE services
    /\ UNCHANGED <<whitelist, users, adjusts, reqs, adminVars, rechargeVars,
                   ownerVars, sessionVars>>

\* /load of the ledger bot (lines 656-666): the two presets are written over
\* what the catalog has under their names, and whitelisted.
Load(caller, chat) ==
    /\ IF OwnerPrivate(caller, chat)
       THEN /\ services' = Put(Put(services, "view", Presets["view"]),
                               "like", Presets["like"])
            /\ whitelist' = whitelist \cup {"view", "like"}
       ELSE UNCHANGED <<services, whitelist>>
    /\ UNCHANGED <<users, adjusts, reqs, adminVars, rechargeVars, ownerVars, sessionVars>>

\* /adduser <tg_id> (lines 611-618)
AddUser(caller, chat, uid) ==
    /\ users' = IF OwnerPrivate(caller, chat)
                THEN [users EXCEPT ![uid] =
                        [OrNew(users, uid, TRUE) EXCEPT !.is_whitelisted = TRUE]]
                ELSE users
    /\ UNCHANGED <<adjusts, reqs, catalogVars, adminVars, rechargeVars,
                   ownerVars, sessionVars>>

\* /post <product name> <product id> of the owner-only bot (lines 281-299);
\* key is name.toLowerCase().  The only guard is isOwner(ctx).
OwnerPost(from, chat, key, id) ==
    /\ DB_products' =
          IF isOwnerCtx(from)
          THEN LET had == IF key \in DOMAIN DB_products
                          THEN DB_products[key] ELSE Prod("", 0)
               IN Put(DB_products, key, [had EXCEPT !.id = id])
          ELSE DB_products
    /\ UNCHANGED <<DB_orders, jobs, parse, users, adjusts, reqs, catalogVars, adminVars,
                   rechargeVars, sessionVars>>

\* /setprice <product name> <mmk per 1000> of the owner-only bot (lines
\* 302-321): a price that is not a finite number > 0 gets the usage reply.
OwnerSetPrice(from, chat, key, price) ==
    /\ DB_products' =
          IF isOwnerCtx(from) /\ price > 0
          THEN LET had == IF key \in DOMAIN DB_products
                          THEN DB_products[key] ELSE Prod("", 0)
               IN Put(DB_products, key, [had EXCEPT !.price_mmk_per_1k = price])
          ELSE DB_products
    /\ UNCHANGED <<DB_orders, jobs, parse, users, adjusts, reqs, catalogVars, adminVars,
                   rechargeVars, sessionVars>>

\* The arguments the commands are given
PostNames == {"vip"}
PriceNames == {"view", "vip", "nope"}
Prices == {70, 0 - 70}
CommandChats == {"private", "groupO"}
ProductKeys == {"like", "new"}
ProductPrices == {70, 0, 0 - 70}

InitCommands ==
    /\ users = [id \in Ids |-> IF id = P THEN Acct(500) ELSE NoUser]
    /\ services = Presets
    /\ whitelist = CatalogWhitelist
    /\ admins = <<>> /\ demoted = {}
    /\ adjusts = 0
    /\ reqs = <<>>
    /\ DB_products = SavedProducts
    /\ DB_orders = <<>>
    /\ jobs = <<>>
    /\ RechargeQuiet
    /\ SessionQuiet
    /\ parse = NoParse

NextCommands ==
    \/ \E caller \in Ids, chat \in CommandChats, name \in PostNames :
          Post(caller, chat, "900", name)
    \/ \E caller \in Ids, chat \in CommandChats, name \in PriceNames, price \in Prices :
          SetPrice(caller, chat, name, price)
    \/ \E caller \in Ids, chat \in CommandChats : Load(caller, chat)
    \/ \E caller \in Ids, chat \in CommandChats, uid \in Parties : AddUser(caller, chat, uid)
    \/ \E caller \in Ids, chat \in CommandChats, uid \in Parties, a \in AddAmounts :
          AddBalance(caller, chat, uid, a)
    \/ \E caller \in Ids, chat \in CommandChats, id \in {P, Q} : Promote(caller, chat, id)
    \/ \E caller \in Ids, chat \in CommandChats, id \in {P, Q} : Demote(caller, chat, id)
    \/ \E from \in Ids, chat \in CommandChats, key \in ProductKeys :
          OwnerPost(from, chat, key, "77")
    \/ \E from \in Ids, chat \in CommandChats, key \in ProductKeys, price \in ProductPrices :
          OwnerSetPrice(from, chat, key, price)

SpecCommands == InitCommands /\ [][NextCommands]_vars

\* The step is one of the mutating commands, sent by caller in chat.
MutatingCommand(caller, chat) ==
    \/ \E name \in PostNames : Post(caller, chat, "900", name)
    \/ \E name \in PriceNames, price \in Prices : SetPrice(caller, chat, name, price)
    \/ Load(caller, chat)
    \/ \E uid \in Parties : AddUser(caller, chat, uid)
    \/ \E uid \in Parties, a \in AddAmounts : AddBalance(caller, chat, uid, a)
    \/ \E id \in {P, Q} : Promote(caller, chat, id)
    \/ \E id \in {P, Q} : Demote(caller, chat, id)
    \/ \E key \in ProductKeys : OwnerPost(caller, chat, key, "77")
    \/ \E key \in ProductKeys, price \in ProductPrices :
          OwnerSetPrice(caller, chat, key, price)

\* C19: a catalog, price, ledger or admin command changes state only when the
\* operator sends it in a private chat: sent by anyone else, or by the
\* operator in a group chat, it leaves the catalogs, the accounts and the
\* admin list unchanged.
C19_MutationsOperatorPrivateOnly ==
    [][ \A caller \in Ids, chat \in CommandChats :
          (MutatingCommand(caller, chat)
           /\ ~(caller = OWNER /\ ChatType(chat) = "private"))
          => (/\ services' = services /\ whitelist' = whitelist
              /\ DB_products' = DB_products
              /\ users' = users
              /\ admins' = admins) ]_vars

\* The commands of the ledger bot, taken alone, do obey that rule.
LedgerCommandsOperatorPrivateOnly ==
    [][ \A caller \in Ids, chat \in CommandChats :
          (/\ MutatingCommand(caller, chat)
           /\ DB_products' = DB_products
           /\ ~(caller = OWNER /\ ChatType(chat) = "private"))
          => (/\ services' = services /\ whitelist' = whitelist
              /\ users' = users
              /\ admins' = admins) ]_vars

----------------------------------------------------------------------------
(* parseAddCommand of the owner-only bot, lines 154-243.  A string is the    *)
(* sequence of its characters; positions are 0-based as in the code.         *)

MaxItems == 2

IsSpace(c) == c \in {" ", "\t", "\n"}
IsDigit(c) == \E d \in 1..Len(DigitChars) : DigitChars[d] = c

\* str.slice(a) and str.slice(a, b) for 0 <= a
Slice(str, a) == SubSeq(str, a + 1, Len(str))
SliceTo(str, a, b) == SubSeq(str, a + 1, IF b > Len(str) THEN Len(str) ELSE b)

\* str.trim()
RECURSIVE TrimStart(_)
TrimStart(str) ==
    IF str # <<>> /\ IsSpace(Head(str)) THEN TrimStart(Tail(str)) ELSE str
RECURSIVE TrimEnd(_)
TrimEnd(str) ==
    IF str # <<>> /\ IsSpace(str[Len(str)])
    THEN TrimEnd(SubSeq(str, 1, Len(str) - 1)) ELSE str
Trim(str) == TrimEnd(TrimStart(str))

\* str.toLowerCase()
LowerChar(c) ==
    CASE c = "V" -> "v" [] c = "L" -> "l" [] c = "Y" -> "y" [] c = "E" -> "e"
      [] OTHER -> c
ToLowerCase(str) == [n \in 1..Len(str) |-> LowerChar(str[n])]

\* str.indexOf(sub): the first position where sub occurs, or -1
IndexOf(str, sub) ==
    LET at == { i \in 0..(Len(str) - Len(sub)) : SliceTo(str, i, i + Len(sub)) = sub }
    IN IF at = {} THEN 0 - 1 ELSE CHOOSE i \in at : \A i2 \in at : i <= i2

\* How many characters at the start of str satisfy the test
RECURSIVE DigitRun(_)
DigitRun(str) ==
    IF str # <<>> /\ IsDigit(Head(str)) THEN 1 + DigitRun(Tail(str)) ELSE 0
RECURSIVE SpaceRun(_)
SpaceRun(str) ==
    IF str # <<>> /\ IsSpace(Head(str)) THEN 1 + SpaceRun(Tail(str)) ELSE 0

\* remaining.match(/^(\d+)(\s+|$)/): the digits matched and the length of the
\* whole match, or no match
QtyMatch(str) ==
    LET d == DigitRun(str)
        w == SpaceRun(Slice(str, d))
    IN IF d >= 1 /\ (d = Len(str) \/ w >= 1)
       THEN [found |-> TRUE, digits |-> SliceTo(str, 0, d), length |-> d + w]
       ELSE [found |-> FALSE, digits |-> <<>>, length |-> 0]

\* prepareNameMatcher and the search loop of lines 192-198: of the names that
\* occur in remaining, the one at the lowest index; the names are tried
\* longest first, so of two names at that index the longer one is taken.
Earliest(names, remaining) ==
    LET found == { nk \in names : IndexOf(remaining, nk) # 0 - 1 }
    IN IF found = {} THEN [idx |-> 0 - 1, nameKey |-> <<>>]
       ELSE LET nk == CHOOSE a \in found : \A b \in found :
                         \/ IndexOf(remaining, a) < IndexOf(remaining, b)
                         \/ /\ IndexOf(remaining, a) = IndexOf(remaining, b)
                            /\ Len(a) >= Len(b)
            IN [idx |-> IndexOf(remaining, nk), nameKey |-> nk]

\* The while loop of lines 186-236
RECURSIVE ParseLoop(_, _, _, _, _)
ParseLoop(names, originalAfter, remaining, cursor, items) ==
    IF Len(Trim(remaining)) = 0 THEN items
    ELSE
      LET earliest == Earliest(names, remaining) IN
      IF earliest.idx = 0 - 1 THEN items
      ELSE
        LET consumedName == Len(earliest.nameKey)
            remaining1   == Trim(Slice(Slice(remaining, earliest.idx), consumedName))
            cursor1      == cursor + earliest.idx + consumedName
            originalName == SliceTo(originalAfter, cursor1 - consumedName, cursor1)
            qtyMatch     == QtyMatch(remaining1)
        IN
        IF ~qtyMatch.found THEN items
        ELSE ParseLoop(names, originalAfter,
                       Trim(Slice(remaining1, qtyMatch.length)),
                       cursor1 + qtyMatch.length,
                       Append(items, PItem(earliest.nameKey, Trim(originalName),
                                           Number(qtyMatch.digits))))

ParseError == [error |-> TRUE, link |-> <<>>, items |-> <<>>]

\* text.replace(/^\/add(@\w+)?\s+/i, '') for a text without @botname
StripCommand(text) ==
    LET cmd == ToLowerCase(SliceTo(text, 0, 4)) IN
    IF cmd = <<"/", "a", "d", "d">> /\ SpaceRun(Slice(text, 4)) >= 1
    THEN Slice(text, 4 + SpaceRun(Slice(text, 4)))
    ELSE text

parseAddCommand(text) ==
    LET rest     == Trim(StripCommand(text))
        spaceIdx == IndexOf(rest, <<" ">>)
        names    == DOMAIN DB_products
    IN
    IF rest = <<>> \/ spaceIdx = 0 - 1 \/ names = {} THEN ParseError
    ELSE
      LET link  == Trim(SliceTo(rest, 0, spaceIdx))
          after == Trim(Slice(rest, spaceIdx + 1))
          items == ParseLoop(names, after, ToLowerCase(after), 0, <<>>)
      IN IF Len(items) = 0 THEN ParseError
         ELSE [error |-> FALSE, link |-> link, items |-> items]

\* Product keys, links and quantities of the runs
KeyView == <<"v", "i", "e", "w">>
KeyLike == <<"l", "i", "k", "e">>
KeyEw == <<"e", "w">>
KeyView1 == <<"v", "i", "e", "w", " ", "1">>
ParseKeys == {KeyView, KeyLike, KeyEw, KeyView1}
ParseLinks == { <<"x", ".", "i", "o">>, <<"t", ".", "m", "e", "/", "Y">> }
ParseQtys == {1000, 500, 15}

\* '<link> key1 qty1 key2 qty2 ...' after the command
RECURSIVE SerializeItems(_)
SerializeItems(items) ==
    IF items = <<>> THEN <<>>
    ELSE <<" ">> \o Head(items).key \o <<" ">> \o DecStr(Head(items).qty)
         \o SerializeItems(Tail(items))

Pair(key, qty) == [key |-> key, qty |-> qty]

PairLists(keys) ==
    UNION { [1..n -> { Pair(k, q) : k \in keys, q \in ParseQtys }] : n \in 1..MaxItems }

InitParse ==
    /\ \E keys \in SUBSET ParseKeys :
          /\ keys # {}
          /\ DB_products = [k \in keys |-> Prod("258", 50)]
          /\ \E link \in ParseLinks, items \in PairLists(keys) :
                parse = [pc |-> "input", link |-> link, items |-> items]
    /\ DB_orders = <<>> /\ jobs = <<>>
    /\ LedgerQuiet
    /\ RechargeQuiet
    /\ SessionQuiet

\* The message text of the command is written
Serialize ==
    /\ parse.pc = "input"
    /\ parse' = [pc |-> "text", link |-> parse.link, items |-> parse.items,
                 text |-> <<"/", "a", "d", "d", " ">> \o parse.link
                          \o SerializeItems(parse.items)]
    /\ UNCHANGED <<DB_products, DB_orders, jobs, users, reqs, adjusts, catalogVars,
                   adminVars, rechargeVars, sessionVars>>

\* const parsed = parseAddCommand(text)                    (line 422)
ParseAdd ==
    /\ parse.pc = "text"
    /\ parse' = [pc |-> "parsed", link |-> parse.link, items |-> parse.items,
                 text |-> parse.text, result |-> parseAddCommand(parse.text)]
    /\ UNCHANGED <<DB_products, DB_orders, jobs, users, reqs, adjusts, catalogVars,
                   adminVars, rechargeVars, sessionVars>>

NextParse == Serialize \/ ParseAdd

SpecParse == InitParse /\ [][NextParse]_vars

\* The (productKey, quantity) pairs of parsed items
PairsOf(items) == [n \in 1..Len(items) |-> Pair(items[n].nameKey, items[n].qty)]

RoundTrips ==
    /\ ~parse.result.error
    /\ parse.result.link = parse.link
    /\ PairsOf(parse.result.items) = parse.items

\* C20: for every catalog and every sequence of (key, quantity) pairs drawn
\* from it, parsing the serialized sequence returns the link verbatim and the
\* same pairs, in the same order and with the same quantities.
C20_ParseRoundTrip ==
    parse.pc = "parsed" => RoundTrips

\* A key of the catalog continues another key with a space and digits.
Extends(long, short) ==
    /\ Len(long) > Len(short) + 1
    /\ SliceTo(long, 0, Len(short)) = short
    /\ long[Len(short) + 1] = " "
    /\ IsDigit(long[Len(short) + 2])

\* In a catalog where no key continues another key with a space and digits,
\* the round trip does hold.
RoundTripWithoutExtendingKeys ==
    (/\ parse.pc = "parsed"
     /\ \A k1, k2 \in DOMAIN DB_products : ~Extends(k1, k2))
    => RoundTrips

----------------------------------------------------------------------------
(* Claims about the items parseAddCommand returns (SpecParse) *)

\* C21: every item that parseAddCommand returns, at any position of the
\* list, has as displayName the span of the input at which its key matched:
\* a string of the key's length whose lower-case form is the key.
C21_DisplayNameIsMatchedSpan ==
    (parse.pc = "parsed" /\ ~parse.result.error) =>
        \A n \in 1..Len(parse.result.items) :
            LET it == parse.result.items[n] IN
            /\ Len(it.displayName) = Len(it.nameKey)
            /\ ToLowerCase(it.displayName) = it.nameKey

----------------------------------------------------------------------------
(* bot.command('add') of the owner-only bot on a raw message text,           *)
(* lines 417-504: parseAddCommand, the reply of its error, the order loop.   *)

Cmd == <<"/", "a", "d", "d">>
Sp == <<" ">>
Comma == <<",">>
LinkX == <<"x", ".", "i", "o">>
KeyAbc == <<"a", "b", "c">>

\* ctx.message.text of the runs
AddTexts ==
    { Cmd,
      Cmd \o Sp \o LinkX,
      Cmd \o Sp \o LinkX \o Sp \o KeyView \o Sp \o DecStr(15),
      Cmd \o Sp \o LinkX \o Sp \o KeyView \o Sp \o DecStr(15) \o Sp \o KeyLike,
      Cmd \o Sp \o LinkX \o Sp \o KeyView \o Sp \o KeyLike \o Sp \o DecStr(15),
      Cmd \o Sp \o LinkX \o Sp \o KeyAbc \o Sp \o DecStr(15),
      Cmd \o Sp \o LinkX \o Sp \o KeyView \o Sp \o DecStr(15) \o Sp \o Comma \o Sp
          \o KeyLike \o Sp \o DecStr(500),
      Cmd \o Sp \o LinkX \o Sp \o KeyView \o Sp \o DecStr(15) \o Comma \o Sp
          \o KeyLike \o Sp \o DecStr(500) }

\* DB.products of the runs: no product, view and like with id and price, or
\* view alone as /post leaves it (id given, price 0, lines 294-296)
PostedOnly == [k \in {KeyView} |-> Prod("258", 0)]
TextCatalogs == { <<>>, [k \in {KeyView, KeyLike} |-> Prod("258", 50)], PostedOnly }

\* The handler from its guards (lines 418-419) through the parse (421-425)
\* to the first callAPI of the loop or to the receipt.
OwnerAddText(j, from, chat, text) ==
    /\ jobs[j].pc = "idle"
    /\ \A j0 \in Jobs : j0 < j => jobs[j0].pc # "idle"
    /\ IF isGroup(chat) /\ isOwnerCtx(from)
       THEN LET parsed == parseAddCommand(text) IN
            /\ parse' = [pc |-> "handled", job |-> j, text |-> text, result |-> parsed]
            /\ IF parsed.error
               THEN /\ jobs' = [jobs EXCEPT ![j] = [IdleJob EXCEPT !.pc = "rejected",
                                                                  !.from = from, !.chat = chat,
                                                                  !.replied = TRUE]]
                    /\ DB_orders' = DB_orders
               ELSE LET run == OrderLoop(j, [IdleJob EXCEPT !.from = from, !.chat = chat,
                                                             !.link = parsed.link,
                                                             !.items = parsed.items],
                                         DB_orders, 1)
                    IN /\ jobs' = [jobs EXCEPT ![j] = run.jb]
                       /\ DB_orders' = run.log
       ELSE /\ jobs' = [jobs EXCEPT ![j] = [IdleJob EXCEPT !.pc = "ignored",
                                                          !.from = from, !.chat = chat]]
            /\ DB_orders' = DB_orders
            /\ parse' = parse
    /\ UNCHANGED <<DB_products, users, reqs, adjusts, catalogVars, adminVars, rechargeVars,
                   sessionVars>>

InitAddText ==
    /\ DB_products \in TextCatalogs
    /\ DB_orders = <<>>
    /\ jobs = [j \in Jobs |-> IdleJob]
    /\ parse = NoParse
    /\ LedgerQuiet
    /\ RechargeQuiet
    /\ SessionQuiet

NextAddText ==
    \/ \E j \in Jobs, from \in Ids, chat \in Chats, text \in AddTexts :
          OwnerAddText(j, from, chat, text)
    \/ \E j \in Jobs, out \in ApiOutcomes : OwnerApiReturn(j, out)

SpecAddText == InitAddText /\ [][NextAddText]_vars

----------------------------------------------------------------------------
(* Claims about parse failures (SpecAddText) *)

\* The body of the command and what follows its destination token
Body(text) == Trim(StripCommand(text))
HasRemainder(text) == IndexOf(Body(text), Sp) # 0 - 1
Remainder(text) == Trim(Slice(Body(text), IndexOf(Body(text), Sp) + 1))

\* What follows the first product key of the remainder, blanks skipped
AfterFirstKey(text) ==
    LET after == ToLowerCase(Remainder(text))
        first == Earliest(DOMAIN DB_products, after)
    IN IF first.idx = 0 - 1 THEN <<>>
       ELSE TrimStart(Slice(after, first.idx + Len(first.nameKey)))

\* The first product key of the remainder is followed by a run of digits
FirstKeyHasQuantity(text) == DigitRun(AfterFirstKey(text)) >= 1

\* ... by a run of digits that ends at a blank or at the end of the text
FirstKeyHasIntegerToken(text) ==
    LET str == AfterFirstKey(text)
        d   == DigitRun(str)
    IN d >= 1 /\ (d = Len(str) \/ IsSpace(str[d + 1]))

\* What the handler does with a failure: the error is the reply, no record
\* is appended and no fulfillment call is started.
RejectedBy(j) ==
    /\ jobs'[j].pc = "rejected" /\ jobs'[j].replied
    /\ DB_orders' = DB_orders

\* C22: the handler's parse fails exactly when the body has no remainder
\* after the destination token, the catalog is empty, or the first product
\* key of the remainder is not followed by a quantity; on a failure no record
\* is appended and no call is made, and otherwise there is at least one item.
C22_FailureExactlyInListedCases ==
    [][ \A j \in Jobs, from \in Ids, chat \in Chats, text \in AddTexts :
          (OwnerAddText(j, from, chat, text) /\ isGroup(chat) /\ isOwnerCtx(from))
          => LET parsed == parseAddCommand(text) IN
             /\ parsed.error <=> (\/ ~HasRemainder(text)
                                  \/ DOMAIN DB_products = {}
                                  \/ ~FirstKeyHasQuantity(text))
             /\ parsed.error => RejectedBy(j)
             /\ ~parsed.error => Len(parsed.items) >= 1 ]_vars

\* With a quantity read as an integer token (digits up to a blank or the end
\* of the text), the parse does fail exactly in the listed cases.
FailureExactlyWithoutIntegerToken ==
    [][ \A j \in Jobs, from \in Ids, chat \in Chats, text \in AddTexts :
          (OwnerAddText(j, from, chat, text) /\ isGroup(chat) /\ isOwnerCtx(from))
          => LET parsed == parseAddCommand(text) IN
             /\ parsed.error <=> (\/ ~HasRemainder(text)
                                  \/ DOMAIN DB_products = {}
                                  \/ ~FirstKeyHasIntegerToken(text))
             /\ parsed.error => RejectedBy(j)
             /\ ~parsed.error => Len(parsed.items) >= 1 ]_vars

\* A product key with no quantity after it ends the scan, and the items
\* recovered before it are kept.
PartialTextKeepsItems ==
    parse.pc = "handled"
    /\ parse.text = Cmd \o Sp \o LinkX \o Sp \o KeyView \o Sp \o DecStr(15) \o Sp \o KeyLike
    /\ DB_products # <<>>
    => PairsOf(parse.result.items) = <<Pair(KeyView, 15)>>

----------------------------------------------------------------------------
(* Claims about a product with no price (SpecAddText) *)

\* C23: with a catalog of one product whose price is unset, every order
\* record has cost 0 and no remote order id, also when the product has the
\* external identifier that /post gave it.
C23_UnpricedProductHasNoRemoteId ==
    DB_products = PostedOnly =>
        \A n \in 1..Len(DB_orders) :
            /\ DB_orders[n].cost_mmk = 0
            /\ DB_orders[n].id = "undefined"

\* The cost of such an order is 0 whatever the call returns.
UnpricedProductCostsNothing ==
    DB_products = PostedOnly =>
        \A n \in 1..Len(DB_orders) : DB_orders[n].cost_mmk = 0

----------------------------------------------------------------------------
(* Claims about the prices of the catalogs (SpecCommands) *)

\* C24: after any sequence of /post, /setprice and /load with any arguments,
\* every product of both catalogs has a unit price >= 0.
C24_PricesNeverNegative ==
    /\ \A name \in DOMAIN services : services[name].price_mmk >= 0
    /\ \A key \in DOMAIN DB_products : DB_products[key].price_mmk_per_1k >= 0

\* The catalog of the owner-only bot keeps its prices >= 0: its /setprice
\* rejects a price that is not > 0.
OwnerPricesNeverNegative ==
    \A key \in DOMAIN DB_products : DB_products[key].price_mmk_per_1k >= 0

\* A /setprice of the owner-only bot with a price <= 0 leaves DB.products
\* unchanged.
OwnerSetPriceRejectsNonPositive ==
    [][ \A from \in Ids, chat \in CommandChats, key \in ProductKeys,
           price \in ProductPrices :
          (OwnerSetPrice(from, chat, key, price) /\ price <= 0)
          => DB_products' = DB_products ]_vars

----------------------------------------------------------------------------
(* The token loop of the ledger bot's /add, lines 710-721.  The loop is      *)
(* synchronous; it is modelled one iteration per step, up to MaxIters        *)
(* iterations.                                                               *)

MaxTokens == 3
MaxIters == 3

\* str.split(ch)
RECURSIVE SplitOn(_, _)
SplitOn(str, ch) ==
    LET idx == IndexOf(str, <<ch>>) IN
    IF idx = 0 - 1 THEN <<str>>
    ELSE <<SliceTo(str, 0, idx)>> \o SplitOn(Slice(str, idx + 1), ch)

\* Number(x) for undefined, '', digits, -digits, and anything else (NaN)
NaN == [nan |-> TRUE, v |-> 0]
Num(v) == [nan |-> FALSE, v |-> v]
ToNumber(arg) ==
    IF ~arg.def THEN NaN
    ELSE LET str == arg.str IN
         IF str = <<>> THEN Num(0)
         ELSE IF DigitRun(str) = Len(str) THEN Num(Number(str))
         ELSE IF Head(str) = "-" /\ Len(str) > 1 /\ DigitRun(Tail(str)) = Len(str) - 1
         THEN Num(0 - Number(Tail(str)))
         ELSE NaN

Undefined == [def |-> FALSE, str |-> <<>>]
Defined(str) == [def |-> TRUE, str |-> str]

\* One pass through the body of while (parts.length), lines 716-720: the
\* order it pushes, or the break.  rest is a copy of parts without its first
\* token, and rest.shift() removes a token from that copy only.
LoopBody(parts) ==
    LET nameQty == Head(parts)
        rest    == Tail(parts)
        split   == SplitOn(nameQty, "/")
        name    == split[1]
        qty     == IF Len(split) >= 2 THEN Defined(split[2]) ELSE Undefined
        shifted == IF rest = <<>> THEN Undefined ELSE Defined(Head(rest))
        qtyNum  == ToNumber(IF qty.def /\ qty.str # <<>> THEN qty ELSE shifted)
    IN IF name = <<>> \/ qtyNum.nan \/ qtyNum.v = 0
       THEN [break |-> TRUE, order |-> Item(<<>>, 0)]
       ELSE [break |-> FALSE, order |-> Item(name, qtyNum.v)]

\* The tokens of the runs: a name, quantities, a name/quantity pair, a word,
\* and the empty token that two blanks in a row give
Tokens ==
    { KeyView, DecStr(1000), DecStr(0), <<"-">> \o DecStr(5),
      KeyLike \o <<"/">> \o DecStr(500), KeyAbc, <<>> }

TokenLists == UNION { [1..n -> Tokens] : n \in 0..MaxTokens }

\* '/add' and the tokens, joined by single blanks
RECURSIVE JoinTokens(_)
JoinTokens(toks) ==
    IF toks = <<>> THEN <<>> ELSE Sp \o Head(toks) \o JoinTokens(Tail(toks))

\* Lines 710-714 in a handler that passed its guards: split, the usage reply
\* when nothing follows /add, and the link shifted off parts.
TokensStart ==
    /\ parse.pc = "text"
    /\ LET parts == Tail(SplitOn(parse.text, " ")) IN
       parse' = IF parts = <<>>
                THEN [pc |-> "usage", text |-> parse.text]
                ELSE [pc |-> "loop", text |-> parse.text, link |-> Head(parts),
                      parts |-> Tail(parts), orders |-> <<>>, iters |-> 0]
    /\ UNCHANGED <<DB_products, DB_orders, jobs, users, reqs, adjusts, catalogVars,
                   adminVars, rechargeVars, sessionVars>>

\* The test of while (parts.length) and one pass through the body.  When the
\* loop ends, `orders` goes to the charge loop of line 726.
TokenLoopStep ==
    /\ parse.pc = "loop"
    /\ parse.iters < MaxIters
    /\ parse' = IF parse.parts = <<>> \/ LoopBody(parse.parts).break
                THEN [parse EXCEPT !.pc = "charge"]
                ELSE [parse EXCEPT !.orders = Append(@, LoopBody(parse.parts).order),
                                   !.iters = @ + 1]
    /\ UNCHANGED <<DB_products, DB_orders, jobs, users, reqs, adjusts, catalogVars,
                   adminVars, rechargeVars, sessionVars>>

InitTokens ==
    /\ \E text \in {Cmd} \cup { Cmd \o Sp \o LinkX \o JoinTokens(toks) : toks \in TokenLists } :
          parse = [pc |-> "text", text |-> text]
    /\ DB_products = <<>> /\ DB_orders = <<>> /\ jobs = <<>>
    /\ LedgerQuiet
    /\ RechargeQuiet
    /\ SessionQuiet

NextTokens == TokensStart \/ TokenLoopStep

SpecTokens == InitTokens /\ [][NextTokens]_vars

----------------------------------------------------------------------------
(* Claims about the token loop (SpecTokens) *)

\* C25: every iteration of the token loop that does not end it consumes
\* tokens, so the loop ends with a finite list of orders and the handler
\* reaches its charge loop.
C25_EachIterationConsumesTokens ==
    [][ (TokenLoopStep /\ parse'.pc = "loop")
        => Len(parse'.parts) < Len(parse.parts) ]_vars

\* The list of orders never has more entries than the command has tokens.
OrdersWithinTokens ==
    parse.pc \in {"loop", "charge"} => Len(parse.orders) <= Len(parse.parts)

\* The loop ends only by its break in the first pass or on an empty list:
\* the charge loop is reached with no order at all.
LoopEndsOnlyWithoutOrders ==
    parse.pc = "charge" => parse.orders = <<>>

----------------------------------------------------------------------------
(* Claims about the receipt's total (SpecCharge) *)

TotalIsSumOfPricedItems ==
    \A r \in Reqs :
        (reqs[r].pc = "done" /\ ~isOwner(reqs[r].from) /\ AllPriced(reqs[r]))
        => reqs[r].totalCost = FullCost(reqs[r], 1)

----------------------------------------------------------------------------
(* Claims about the amounts of the recharge flow (SpecRecharge) *)

\* The amounts of a state: a session that awaits the proof holds a
\* denomination, a session that awaits an amount holds none, and every review
\* request, sent or delivered, carries a denomination in its caption and in
\* the data of both its buttons.
AmountsInAllowList ==
    /\ \A id \in Ids :
          /\ rechargeSessions[id].step \in {0, 1, 2}
          /\ rechargeSessions[id].step = 2 => rechargeSessions[id].amount \in Denominations
          /\ rechargeSessions[id].step = 1 => rechargeSessions[id] = AwaitingAmount
          /\ rechargeSessions[id].step = 0 => rechargeSessions[id] = NoSession
    /\ \A n \in 1..Len(photos) :
          /\ photos[n].amount \in Denominations
          /\ Number(photos[n].confirm.amtStr) = photos[n].amount
          /\ Number(photos[n].confirm.uidStr) = photos[n].id
          /\ Number(photos[n].failed.amtStr) = photos[n].amount
          /\ Number(photos[n].failed.uidStr) = photos[n].id
    /\ \A rv \in reviews : rv.amount \in Denominations

\* C27: in every state a step leads to, the amounts are as above, and each
\* of them is the party's own choice: a session takes an amount only from a
\* message of its party that writes it, a review request takes the amount of
\* its party's session, and a delivered request is one that was sent.
C27_AmountsChosenFromAllowList ==
    [][ /\ AmountsInAllowList'
        /\ \A id \in Ids :
             (rechargeSessions'[id].step = 2 /\ rechargeSessions'[id] # rechargeSessions[id])
             => \E msg \in Messages :
                   /\ MessageHandler(id, msg)
                   /\ Writes(msg, rechargeSessions'[id].amount)
        /\ \A n \in 1..Len(photos') :
             n > Len(photos) =>
               rechargeSessions[photos'[n].id] = AwaitingProof(photos'[n].amount)
        /\ \A rv \in reviews' \ reviews :
             \E n \in 1..Len(photos) :
                photos[n].id = rv.id /\ photos[n].amount = rv.amount ]_vars

\* Q's request for 500 was delivered to the operator, Q opened a new session
\* that awaits an amount, and P's session awaits the proof for 2000.
C27_Witness ==
    /\ Review(Q, 500) \in reviews
    /\ rechargeSessions[Q] = AwaitingAmount
    /\ rechargeSessions[P] = AwaitingProof(2000)

====
